---- MODULE Spec2Model ----
(***************************************************************************)
(* Responder ("Bob") side of the BCH <-> XMR atomic swap:                  *)
(*   - Bob::transition, the pure state machine (protocol/src/bob.rs)       *)
(*   - Runner, which polls the chains and executes the actions (bob.rs)    *)
(*   - TcpElectrum, the multiplexed chain-RPC client, and                  *)
(*     scan_address_conf_tx (protocol/src/blockchain/mod.rs)               *)
(* The cryptographic collaborators (proof, AdaptorSignature, ContractPair) *)
(* live outside these two files; they are modelled symbolically from their *)
(* contracts.                                                              *)
(***************************************************************************)
EXTENDS Integers, Sequences, FiniteSets, TLC

\* ------------------------------------------------------------------------
\* Bounds of the model
\* ------------------------------------------------------------------------
\* order of the (toy) scalar group in which secret keys live
ScalarOrder == 5
\* largest confirmation count a chain observation carries
MaxConf == 3

\* number of tasks that call TcpElectrum::send
NSend == 2
\* lines with an id the server sends beyond one response per written request
\* (delayed duplicates, lines nobody asked for)
MaxExtra == 1
\* notification lines read in the specification of the notification feed
MaxNotes == 11
\* the largest confirmation floor a runner is configured with
MaxMinConf == 2

\* ------------------------------------------------------------------------
\* Program constants
\* ------------------------------------------------------------------------
\* first argument of ContractPair::create: the mining fee in satoshi
MiningFee == 1000
\* broadcast::channel(10): lines the notification channel retains for a receiver
BroadcastCapacity == 10

None == [none |-> TRUE]

\* ------------------------------------------------------------------------
\* Symbolic cryptography
\* ------------------------------------------------------------------------
Scalars == 0 .. (ScalarOrder - 1)

\* scalar addition (monero::PrivateKey + monero::PrivateKey)
ScalarAdd(a, b) == (a + b) % ScalarOrder

\* public key of a secret scalar on a curve; point addition adds the logs
PublicKey(curve, k) == [curve |-> curve, k |-> k]
PointAdd(P, Q) == [curve |-> P.curve, k |-> ScalarAdd(P.k, Q.k)]

\* double SHA-256 of a script
DoubleSha256(bytes) == [dsha256 |-> bytes]

\* proof::verify(proof, spend_bch, monero_spend): the proof binds the BCH key
\* and the Monero key to one discrete logarithm
proof_verify(proof, spend_bch, monero_spend) ==
    /\ proof.sound
    /\ proof.bch = spend_bch
    /\ proof.xmr = monero_spend
    /\ spend_bch.k = monero_spend.k

\* AdaptorSignature::encrypted_sign(signing secret, encryption public key, message)
encrypted_sign(secret, enc_pub, msg) ==
    [signer |-> secret, enc |-> enc_pub.k, msg |-> msg]

\* AdaptorSignature::decrypt_signature(decryption secret, encrypted signature)
decrypt_signature(secret, enc_sig) ==
    [signer |-> enc_sig.signer, enc |-> enc_sig.enc, msg |-> enc_sig.msg, dec |-> secret]

\* AdaptorSignature::verify(verification key, message, signature)
adaptor_verify(pubkey, msg, sig) ==
    /\ sig.signer = pubkey.k
    /\ sig.msg = msg
    /\ sig.dec = sig.enc

\* AdaptorSignature::recover_decryption_key(encryption key, signature, encrypted signature):
\* the secret that turned enc_sig into sig; NoKey when sig is no decryption of enc_sig
\* under that key
NoKey == [nokey |-> TRUE]
NoSig == [nosig |-> TRUE]
recover_decryption_key(enc_pub, sig, enc_sig) ==
    IF /\ sig # NoSig
       /\ sig.signer = enc_sig.signer
       /\ sig.msg = enc_sig.msg
       /\ sig.enc = enc_sig.enc
       /\ sig.dec = enc_pub.k
       /\ enc_sig.enc = enc_pub.k
    THEN [key |-> sig.dec]
    ELSE NoKey

\* monero::PrivateKey + recovered key
SpendSum(own, recovered) ==
    IF recovered = NoKey THEN NoKey ELSE [key |-> ScalarAdd(own, recovered.key)]

\* ------------------------------------------------------------------------
\* Contracts (ContractPair, contract.rs)
\* ------------------------------------------------------------------------
\* timelock values contract construction accepts
TimelockValid(t) == t >= 1

\* ContractPair::create(mining_fee, bob_recv, bob_ves, alice_recv, alice_ves,
\*                      timelock1, timelock2, network, amount)
ContractPair_create(fee, bob_recv, bob_ves, alice_recv, alice_ves, t1, t2, amount) ==
    IF TimelockValid(t1) /\ TimelockValid(t2)
    THEN LET terms == [bob_recv |-> bob_recv, bob_ves |-> bob_ves,
                       alice_recv |-> alice_recv, alice_ves |-> alice_ves,
                       t1 |-> t1, t2 |-> t2]
         IN  [swaplock |-> [kind |-> "SwapLock", timelock |-> t1, terms |-> terms],
              refund   |-> [kind |-> "Refund", timelock |-> t2, terms |-> terms],
              mining_fee |-> fee,
              amount |-> amount]
    ELSE None

\* Contract::cash_address, Contract::locking_script, Contract::unlocking_script
cash_address(contract) == [cashaddr |-> contract]
locking_script(contract) == [locked_by |-> contract]
unlocking_script(contract, witness) == [unlocks |-> contract, witness |-> witness]

\* monero::Address::from_viewpair(network, view pair)
Address_from_viewpair(pair) ==
    [xmr_addr |-> [view |-> PublicKey("ed25519", pair.view), spend |-> pair.spend]]

\* ContractPair::analyze_tx: classifies a transaction by the contract its output pays
analyze_tx(pair, tx) ==
    IF tx.output = locking_script(pair.swaplock)
    THEN [outpoint |-> [txid |-> tx.txid, vout |-> 0], type |-> "ToSwapLock"]
    ELSE IF tx.output = locking_script(pair.refund)
    THEN [outpoint |-> [txid |-> tx.txid, vout |-> 0], type |-> "ToRefund"]
    ELSE None

\* ------------------------------------------------------------------------
\* Bob (bob.rs): state, accessors, refund construction
\* ------------------------------------------------------------------------
NoError == "None"

\* State::Init
StateInit == [tag |-> "Init"]

\* Value0 (WithAliceKey, ContractMatch)
Value0(tag, alice_keys, alice_bch_recv, contract_pair, shared_keypair, height) ==
    [tag |-> tag, alice_keys |-> alice_keys, alice_bch_recv |-> alice_bch_recv,
     contract_pair |-> contract_pair, shared_keypair |-> shared_keypair,
     xmr_restore_height |-> height]

\* Value1 (VerifiedEncSig)
Value1(props, dec_sig) ==
    [tag |-> "VerifiedEncSig", alice_keys |-> props.alice_keys,
     alice_bch_recv |-> props.alice_bch_recv, contract_pair |-> props.contract_pair,
     shared_keypair |-> props.shared_keypair,
     xmr_restore_height |-> props.xmr_restore_height, dec_sig |-> dec_sig]

\* Value2 (MoneroLocked): no contract pair
Value2(props) ==
    [tag |-> "MoneroLocked", alice_keys |-> props.alice_keys,
     alice_bch_recv |-> props.alice_bch_recv, shared_keypair |-> props.shared_keypair,
     xmr_restore_height |-> props.xmr_restore_height, dec_sig |-> props.dec_sig]

\* Value3 (ProceedRefund)
Value3(props, outpoint) ==
    [tag |-> "ProceedRefund", alice_keys |-> props.alice_keys,
     alice_bch_recv |-> props.alice_bch_recv, contract_pair |-> props.contract_pair,
     shared_keypair |-> props.shared_keypair,
     xmr_restore_height |-> props.xmr_restore_height, dec_sig |-> props.dec_sig,
     outpoint |-> outpoint]

\* State::SwapSuccess(key pair, restore height)
SwapSuccess(key_pair, height) ==
    [tag |-> "SwapSuccess", key_pair |-> key_pair, xmr_restore_height |-> height]

\* KeyPublicWithoutProof::from(KeyPublic)
WithoutProof(keys) ==
    [ves |-> keys.ves, spend_bch |-> keys.spend_bch,
     monero_spend |-> keys.monero_spend, monero_view |-> keys.monero_view]

\* Bob::get_contract
get_contract(self) ==
    IF self.state.tag \in {"WithAliceKey", "ContractMatch"}
    THEN [bch_address |-> cash_address(self.state.contract_pair.swaplock),
          xmr_address |-> Address_from_viewpair(self.state.shared_keypair)]
    ELSE None

\* mutant: the encrypted signature is given out once Alice's is verified
get_swaplock_enc_sig_early(self) ==
    IF self.state.tag \in {"VerifiedEncSig", "MoneroLocked"}
    THEN encrypted_sign(self.swap.keys.ves, self.state.alice_keys.spend_bch,
                        DoubleSha256(self.state.alice_bch_recv))
    ELSE None

\* Bob::get_swaplock_enc_sig
get_swaplock_enc_sig(self) ==
    IF self.state.tag = "MoneroLocked"
    THEN encrypted_sign(self.swap.keys.ves, self.state.alice_keys.spend_bch,
                        DoubleSha256(self.state.alice_bch_recv))
    ELSE None

\* Bob::get_contract_pair
get_contract_pair(self) ==
    IF self.state.tag \in {"WithAliceKey", "ContractMatch", "VerifiedEncSig"}
    THEN self.state.contract_pair
    ELSE None

\* u64 subtraction: exact when it fits; on underflow a build with overflow checks
\* panics and a build without them wraps around 2^64
Panic == [panic |-> TRUE]
U64Sub(a, b, overflow_checks) ==
    IF a >= b THEN [sat |-> a - b]
    ELSE IF overflow_checks THEN Panic
    ELSE [sat_below_2_64 |-> b - a]

\* Transaction::txid
Txid(tx) == [hash_of |-> tx]

\* Bob::refund
refund(self, overflow_checks) ==
    IF self.state.tag = "ProceedRefund"
    THEN LET props == self.state
             mining_fee == props.contract_pair.mining_fee
             value1 == U64Sub(self.swap.bch_amount, mining_fee, overflow_checks)
             value2 == U64Sub(self.swap.bch_amount, mining_fee * 2, overflow_checks)
             tx1 == [input |-> << [sequence |-> props.contract_pair.swaplock.timelock,
                                   previous_output |-> props.outpoint,
                                   script_sig |-> unlocking_script(props.contract_pair.swaplock,
                                                                   NoSig)] >>,
                     output |-> << [value |-> value1,
                                    script_pubkey |->
                                        locking_script(props.contract_pair.refund)] >>]
             tx2 == [input |-> << [sequence |-> 0,
                                   previous_output |-> [txid |-> Txid(tx1), vout |-> 0],
                                   script_sig |-> unlocking_script(props.contract_pair.refund,
                                                                   props.dec_sig)] >>,
                     output |-> << [value |-> value2,
                                    script_pubkey |-> self.swap.bch_recv] >>]
         IN  IF value1 = Panic \/ value2 = Panic
             THEN Panic
             ELSE [tx1 |-> tx1, tx2 |-> tx2]
    ELSE None

\* ------------------------------------------------------------------------
\* Bob::transition
\* ------------------------------------------------------------------------
\* the triple (Self::State, Vec<Action>, Option<Error>); created records whether
\* ContractPair::create was called on the way
Result(self, actions, error, created) ==
    [bob |-> self, actions |-> actions, error |-> error, created |-> created]

SafeDelete == [kind |-> "SafeDelete"]
UnlockBchFallback == [kind |-> "UnlockBchFallback"]
TradeSuccess == [kind |-> "TradeSuccess"]
CreateXmrView(keypair) == [kind |-> "CreateXmrView", keypair |-> keypair]
LockBch(amount, addr) == [kind |-> "LockBch", amount |-> amount, addr |-> addr]
WatchXmr(addr) == [kind |-> "WatchXmr", addr |-> addr]

\* mutant: the height is stored only while the keys have just been exchanged
SetHeightFirst(self, height) ==
    IF self.state.tag = "WithAliceKey"
    THEN Result([self EXCEPT !.state.xmr_restore_height = height], << >>, NoError, FALSE)
    ELSE Result(self, << >>, NoError, FALSE)

\* mutant: the height is stored in every variant that has one
SetHeightAny(self, height) ==
    IF self.state.tag # "Init"
    THEN Result([self EXCEPT !.state.xmr_restore_height = height], << >>, NoError, FALSE)
    ELSE Result(self, << >>, NoError, FALSE)

\* if let Transition::SetXmrRestoreHeight(height) = transition { ... }
SetHeight(self, height) ==
    IF self.state.tag \in {"WithAliceKey", "ContractMatch", "VerifiedEncSig", "MoneroLocked"}
    THEN Result([self EXCEPT !.state.xmr_restore_height = height], << >>, NoError, FALSE)
    ELSE Result(self, << >>, NoError, FALSE)

\* mutant: the contract pair is built, and its timelocks judged, before the proof is
OnMsg0ContractFirst(self, keys, receiving) ==
    LET is_valid_keys == proof_verify(keys.proof, keys.spend_bch, keys.monero_spend)
        contract_pair == ContractPair_create(MiningFee, self.swap.bch_recv,
                                             PublicKey("secp256k1", self.swap.keys.ves),
                                             receiving, keys.ves,
                                             self.swap.timelock1, self.swap.timelock2,
                                             self.swap.bch_amount)
        shared_keypair ==
            [view |-> ScalarAdd(self.swap.keys.monero_view, keys.monero_view),
             spend |-> PointAdd(PublicKey("ed25519", self.swap.keys.monero_spend),
                                keys.monero_spend)]
    IN  IF contract_pair = None
        THEN Result(self, << SafeDelete >>, "InvalidTimelock", TRUE)
        ELSE IF ~is_valid_keys
        THEN Result(self, << SafeDelete >>, "InvalidProof", TRUE)
        ELSE Result([self EXCEPT !.state =
                        Value0("WithAliceKey", WithoutProof(keys), receiving,
                               contract_pair, shared_keypair, 0)],
                    << CreateXmrView(shared_keypair) >>, NoError, TRUE)

\* (State::Init, Transition::Msg0 { keys, receiving })
OnMsg0(self, keys, receiving) ==
    LET is_valid_keys == proof_verify(keys.proof, keys.spend_bch, keys.monero_spend)
        contract_pair == ContractPair_create(MiningFee, self.swap.bch_recv,
                                             PublicKey("secp256k1", self.swap.keys.ves),
                                             receiving, keys.ves,
                                             self.swap.timelock1, self.swap.timelock2,
                                             self.swap.bch_amount)
        shared_keypair ==
            [view |-> ScalarAdd(self.swap.keys.monero_view, keys.monero_view),
             spend |-> PointAdd(PublicKey("ed25519", self.swap.keys.monero_spend),
                                keys.monero_spend)]
    IN  IF ~is_valid_keys
        THEN Result(self, << SafeDelete >>, "InvalidProof", FALSE)
        ELSE IF contract_pair = None
        THEN Result(self, << SafeDelete >>, "InvalidTimelock", TRUE)
        ELSE Result([self EXCEPT !.state =
                        Value0("WithAliceKey", WithoutProof(keys), receiving,
                               contract_pair, shared_keypair, 0)],
                    << CreateXmrView(shared_keypair) >>, NoError, TRUE)

\* mutant: an address mismatch asks for the session to be purged
OnContractPurging(self, bch_address, xmr_address) ==
    LET props == self.state
        xmr_derived == Address_from_viewpair(props.shared_keypair)
    IN  IF cash_address(props.contract_pair.swaplock) # bch_address
        THEN Result(self, << SafeDelete >>, "InvalidBchAddress", FALSE)
        ELSE IF xmr_address # xmr_derived
        THEN Result(self, << SafeDelete >>, "InvalidXmrAddress", FALSE)
        ELSE Result([self EXCEPT !.state = [props EXCEPT !.tag = "ContractMatch"]],
                    << >>, NoError, FALSE)

\* (State::WithAliceKey(props), Transition::Contract { bch_address, xmr_address })
OnContract(self, bch_address, xmr_address) ==
    LET props == self.state
        xmr_derived == Address_from_viewpair(props.shared_keypair)
    IN  IF cash_address(props.contract_pair.swaplock) # bch_address
        THEN Result(self, << >>, "InvalidBchAddress", FALSE)
        ELSE IF xmr_address # xmr_derived
        THEN Result(self, << >>, "InvalidXmrAddress", FALSE)
        ELSE Result([self EXCEPT !.state = [props EXCEPT !.tag = "ContractMatch"]],
                    << >>, NoError, FALSE)

\* ecdsa::Signature::from_compact: fails on a signature with an out-of-range component
from_compact_ok(sig) == sig.dec \in Scalars

\* (State::ContractMatch(props), Transition::EncSig(enc_sig))
OnEncSig(self, enc_sig) ==
    LET props == self.state
        bob_receiving_hash == DoubleSha256(self.swap.bch_recv)
        dec_sig == decrypt_signature(self.swap.keys.monero_spend, enc_sig)
        is_valid == adaptor_verify(props.alice_keys.ves, bob_receiving_hash, dec_sig)
        contract == get_contract(self)
    IN  IF ~is_valid
        THEN Result(self, << SafeDelete >>, "InvalidSignature", FALSE)
        ELSE IF ~from_compact_ok(dec_sig)
        THEN Result(self, << SafeDelete >>, "InvalidSignature", FALSE)
        ELSE Result([self EXCEPT !.state = Value1(props, dec_sig)],
                    << LockBch(self.swap.bch_amount, contract.bch_address),
                       WatchXmr(contract.xmr_address) >>,
                    NoError, FALSE)

\* mutant: the state is replaced before the amount is compared
OnXmrLockVerifiedEager(self, amount) ==
    Result([self EXCEPT !.state = Value2(self.state)], << >>,
           IF amount # self.swap.xmr_amount THEN "InvalidXmrAmount" ELSE NoError, FALSE)

\* (State::VerifiedEncSig(props), Transition::XmrLockVerified(amount))
OnXmrLockVerified(self, amount) ==
    IF amount # self.swap.xmr_amount
    THEN Result(self, << >>, "InvalidXmrAmount", FALSE)
    ELSE Result([self EXCEPT !.state = Value2(self.state)], << >>, NoError, FALSE)

\* mutant: the refund path opens one confirmation late
TimelockExpiredLate(conf, timelock1) == ~(conf <= timelock1)

\* the comparison that opens the refund path: conf < self.swap.timelock1 returns early
TimelockExpired(conf, timelock1) == ~(conf < timelock1)

\* (State::VerifiedEncSig(props), Transition::BchConfirmedTx(transaction, conf))
OnBchConfirmedTxVerified(self, transaction, conf) ==
    LET props == self.state
        found == analyze_tx(props.contract_pair, transaction)
    IN  IF found # None /\ found.type = "ToSwapLock"
        THEN IF ~TimelockExpired(conf, self.swap.timelock1)
             THEN Result(self, << >>, NoError, FALSE)
             ELSE Result([self EXCEPT !.state = Value3(props, found.outpoint)],
                         << UnlockBchFallback >>, NoError, FALSE)
        ELSE IF found # None /\ found.type = "ToRefund"
        THEN Result([self EXCEPT !.state = Value3(props, found.outpoint)],
                    << UnlockBchFallback >>, NoError, FALSE)
        ELSE Result(self, << >>, NoError, FALSE)

\* transaction.input[0].script_sig.instructions().nth(2), parsed as a DER signature
DisclosedSig(transaction) ==
    IF transaction.sig = NoSig THEN None ELSE transaction.sig

\* mutant: the recovered key is stored without Bob's own spend secret added
OnBchConfirmedTxLockedNoSum(self, transaction) ==
    LET props == self.state
        decsig == DisclosedSig(transaction)
        alice_spend == recover_decryption_key(props.alice_keys.spend_bch, decsig,
                                              get_swaplock_enc_sig(self))
        key_pair == [view |-> props.shared_keypair.view, spend |-> alice_spend]
    IN  IF transaction.inputs = 0
        THEN Panic
        ELSE IF decsig = None
        THEN Result(self, << >>, "InvalidTransaction", FALSE)
        ELSE Result([self EXCEPT !.state = SwapSuccess(key_pair, props.xmr_restore_height)],
                    << TradeSuccess >>, NoError, FALSE)

\* (State::MoneroLocked(props), Transition::BchConfirmedTx(transaction, _))
OnBchConfirmedTxLocked(self, transaction) ==
    LET props == self.state
        decsig == DisclosedSig(transaction)
        alice_spend == recover_decryption_key(props.alice_keys.spend_bch, decsig,
                                              get_swaplock_enc_sig(self))
        key_pair == [view |-> props.shared_keypair.view,
                     spend |-> SpendSum(self.swap.keys.monero_spend, alice_spend)]
    IN  IF transaction.inputs = 0
        THEN Panic
        ELSE IF decsig = None
        THEN Result(self, << >>, "InvalidTransaction", FALSE)
        ELSE Result([self EXCEPT !.state = SwapSuccess(key_pair, props.xmr_restore_height)],
                    << TradeSuccess >>, NoError, FALSE)

\* mutant: the catch-all arm reports no error
CatchAllSilent(self) == Result(self, << >>, NoError, FALSE)

\* (_, _) => InvalidStateTransition
CatchAll(self) == Result(self, << >>, "InvalidStateTransition", FALSE)

\* Bob::transition(self, transition)
transition(self, t) ==
    IF t.kind = "SetXmrRestoreHeight" THEN SetHeight(self, t.height)
    ELSE IF self.state.tag = "Init" /\ t.kind = "Msg0"
    THEN OnMsg0(self, t.keys, t.receiving)
    ELSE IF self.state.tag = "WithAliceKey" /\ t.kind = "Contract"
    THEN OnContract(self, t.bch_address, t.xmr_address)
    ELSE IF self.state.tag = "ContractMatch" /\ t.kind = "EncSig"
    THEN OnEncSig(self, t.enc_sig)
    ELSE IF self.state.tag = "VerifiedEncSig" /\ t.kind = "XmrLockVerified"
    THEN OnXmrLockVerified(self, t.amount)
    ELSE IF self.state.tag = "VerifiedEncSig" /\ t.kind = "BchConfirmedTx"
    THEN OnBchConfirmedTxVerified(self, t.tx, t.conf)
    ELSE IF self.state.tag = "MoneroLocked" /\ t.kind = "BchConfirmedTx"
    THEN OnBchConfirmedTxLocked(self, t.tx)
    ELSE CatchAll(self)

\* ------------------------------------------------------------------------
\* The parties, and the events a session can be fed
\* ------------------------------------------------------------------------
\* Bob's secret keys (Swap.keys) and receiving script
BobKeys == [ves |-> 3, monero_spend |-> 2, monero_view |-> 4]
BobRecv == [script |-> "bob"]

\* Alice's secrets and receiving script
AliceSecret == [ves |-> 4, spend |-> 1, view |-> 2]
AliceRecv == [script |-> "alice"]

\* the Swap records a session is created with (Bob::new)
Swaps ==
    { [keys |-> BobKeys, bch_recv |-> BobRecv, timelock1 |-> t1, timelock2 |-> 3,
       bch_amount |-> amount, xmr_amount |-> 7,
       xmr_network |-> IF amount = 5000 THEN "Mainnet" ELSE "Stagenet"] :
        t1 \in {0, 2}, amount \in {1500, 5000} }

\* KeyPublic as Alice sends it: honest, with keys of unequal logarithm, or with a
\* proof made for another key
AliceKeys(bch_k, xmr_k, proof) ==
    [ves |-> PublicKey("secp256k1", AliceSecret.ves),
     spend_bch |-> PublicKey("secp256k1", bch_k),
     monero_spend |-> PublicKey("ed25519", xmr_k),
     monero_view |-> AliceSecret.view,
     proof |-> proof]
ProofOf(bch_k, xmr_k) ==
    [sound |-> bch_k = xmr_k,
     bch |-> PublicKey("secp256k1", bch_k), xmr |-> PublicKey("ed25519", xmr_k)]
HonestKeys == AliceKeys(AliceSecret.spend, AliceSecret.spend,
                        ProofOf(AliceSecret.spend, AliceSecret.spend))
Msg0s ==
    { [kind |-> "Msg0", keys |-> k, receiving |-> AliceRecv] :
        k \in { HonestKeys,
                AliceKeys(AliceSecret.spend, 0, ProofOf(AliceSecret.spend, 0)),
                AliceKeys(AliceSecret.spend, AliceSecret.spend, ProofOf(0, 0)) } }

\* the contract pair of the session between Bob and Alice
SessionPair(swap) ==
    ContractPair_create(MiningFee, swap.bch_recv, PublicKey("secp256k1", swap.keys.ves),
                        AliceRecv, PublicKey("secp256k1", AliceSecret.ves),
                        swap.timelock1, swap.timelock2, swap.bch_amount)

OtherContract == [kind |-> "Other"]
WrongXmrAddress == [xmr_addr |-> [other |-> TRUE]]

\* Contract messages: the addresses Bob derives, or others
Contracts(self) ==
    LET own == get_contract(self)
        bchs == {cash_address(OtherContract)} \cup
                (IF own = None THEN {} ELSE {own.bch_address})
        xmrs == {WrongXmrAddress} \cup (IF own = None THEN {} ELSE {own.xmr_address})
    IN  { [kind |-> "Contract", bch_address |-> b, xmr_address |-> x] :
            b \in bchs, x \in xmrs }

\* Alice's encrypted signature over Bob's receiving script, and faulty ones
AliceEncSig(swap) ==
    encrypted_sign(AliceSecret.ves, PublicKey("secp256k1", swap.keys.monero_spend),
                   DoubleSha256(swap.bch_recv))
EncSigs(swap) ==
    { [kind |-> "EncSig", enc_sig |-> e] :
        e \in { AliceEncSig(swap),
                [AliceEncSig(swap) EXCEPT !.msg = DoubleSha256(AliceRecv)],
                [AliceEncSig(swap) EXCEPT !.enc = 0],
                [AliceEncSig(swap) EXCEPT !.signer = swap.keys.ves] } }

XmrLocks(swap) ==
    { [kind |-> "XmrLockVerified", amount |-> a] :
        a \in {swap.xmr_amount, swap.xmr_amount - 1} }

\* Bob's encrypted signature over Alice's receiving script, and the plain signature
\* Alice discloses when she spends the SwapLock output
BobEncSig(swap) ==
    encrypted_sign(swap.keys.ves, PublicKey("secp256k1", AliceSecret.spend),
                   DoubleSha256(AliceRecv))
DisclosedPlainSig(swap) == decrypt_signature(AliceSecret.spend, BobEncSig(swap))

\* transactions the chain can hold
Txs(swap) ==
    LET pair == SessionPair(swap)
        funding == IF pair = None THEN {}
                   ELSE { [txid |-> 1, output |-> locking_script(pair.swaplock),
                           inputs |-> 1, sig |-> NoSig],
                          [txid |-> 2, output |-> locking_script(pair.refund),
                           inputs |-> 1, sig |-> NoSig] }
    IN  funding \cup
        { [txid |-> 3, output |-> AliceRecv, inputs |-> 1, sig |-> DisclosedPlainSig(swap)],
          [txid |-> 4, output |-> AliceRecv, inputs |-> 1,
           sig |-> decrypt_signature(0, AliceEncSig(swap))],
          [txid |-> 5, output |-> AliceRecv, inputs |-> 1, sig |-> NoSig],
          [txid |-> 6, output |-> AliceRecv, inputs |-> 0, sig |-> NoSig] }

BchConfirmedTxs(swap) ==
    { [kind |-> "BchConfirmedTx", tx |-> tx, conf |-> c] :
        tx \in Txs(swap), c \in 0 .. MaxConf }

RestoreHeights == {8, 9}
SetXmrRestoreHeights ==
    { [kind |-> "SetXmrRestoreHeight", height |-> h] : h \in RestoreHeights }

Kinds(actions) == [i \in 1 .. Len(actions) |-> actions[i].kind]

\* ------------------------------------------------------------------------
\* State
\* ------------------------------------------------------------------------
VARIABLES
    bob,             \* the Bob value a driver holds: [state, swap]
    prev,            \* the State the last call of transition was given
    lastT,           \* the Transition of the last call
    lastRes,         \* what the last call returned: actions, error, created
    path,            \* the steps that changed the variant: <<variant, action kinds>>
    overflow_checks, \* build profile: arithmetic overflow panics (debug) or wraps
    refunded,        \* what the last call of refund returned
    panicked         \* a call panicked

bobVars == << bob, prev, lastT, lastRes, path, overflow_checks, refunded, panicked >>

VARIABLES
    id,        \* TcpElectrum.id: the next request id
    futures,   \* TcpElectrum.futures: id -> the send call that owns the oneshot::Sender
    pc,        \* where each send call is
    myid,      \* the id each send call allocated
    slot,      \* the oneshot channel of each send call: the line sent into it
    got,       \* what each send call returned
    written,   \* the bytes written to the connection, in chunks
    copies,    \* id -> number of lines carrying that id read so far
    extras,    \* number of lines with an id read that answer no written request
    log,       \* the lines read by process_reads and what became of each
    reader,    \* the task running process_reads
    notes,     \* number of notification lines read
    subs       \* the broadcast::Receivers handed out by subscribe

muxVars == << id, futures, pc, myid, slot, got, written, copies, extras, log, reader, notes, subs >>

VARIABLES
    min_bch_conf,  \* Runner.min_bch_conf
    returned,      \* what scan_address_conf_tx returned in the last check_bch: {[height, conf]}
    skipped,       \* why it passed entries over in the last check_bch
    fed,           \* the confirmation counts check_bch last fed as BchConfirmedTx
    effects,       \* what the last call of a Runner method did outside the state
    ended,         \* how the last call of a Runner method ended: Ok, Err or Panic
    asked          \* the kind last given to pub_transition or priv_transition, and
                   \* the calls of Bob::transition that call made

runVars == << min_bch_conf, returned, skipped, fed, effects, ended, asked >>

vars == << bobVars, muxVars, runVars >>

NoResult == [actions |-> << >>, error |-> NoError, created |-> FALSE]

\* Bob::get_public_keys: KeyPublic::from(self.swap.keys.clone())
get_public_keys(self) ==
    LET keys == self.swap.keys
    IN  [ves |-> PublicKey("secp256k1", keys.ves),
         spend_bch |-> PublicKey("secp256k1", keys.monero_spend),
         monero_spend |-> PublicKey("ed25519", keys.monero_spend),
         monero_view |-> keys.monero_view,
         proof |-> ProofOf(keys.monero_spend, keys.monero_spend)]

\* Bob::get_transition: the message Bob has for Alice in his state
get_transition(self) ==
    IF self.state.tag = "WithAliceKey"
    THEN [kind |-> "Msg0", keys |-> get_public_keys(self), receiving |-> self.swap.bch_recv]
    ELSE IF self.state.tag = "ContractMatch"
    THEN LET contract == get_contract(self)
         IN  IF contract = None THEN Panic
             ELSE [kind |-> "Contract", bch_address |-> contract.bch_address,
                   xmr_address |-> contract.xmr_address]
    ELSE IF self.state.tag = "MoneroLocked"
    THEN LET enc_sig == get_swaplock_enc_sig(self)
         IN  IF enc_sig = None THEN Panic ELSE [kind |-> "EncSig", enc_sig |-> enc_sig]
    ELSE None

InitBob ==
    /\ bob \in { [state |-> StateInit, swap |-> s] : s \in Swaps }
    /\ prev = None
    /\ lastT = None
    /\ lastRes = NoResult
    /\ path = << >>
    /\ overflow_checks \in BOOLEAN
    /\ refunded = None
    /\ panicked = FALSE

\* a driver calls bob.transition(t) and keeps the returned state
Apply(t) ==
    /\ \E r \in {transition(bob, t)} :
           IF r = Panic
           THEN /\ panicked' = TRUE
                /\ UNCHANGED << bob, prev, lastT, lastRes, path >>
           ELSE /\ bob' = r.bob
                /\ prev' = bob.state
                /\ lastT' = t
                /\ lastRes' = [actions |-> r.actions, error |-> r.error,
                               created |-> r.created]
                /\ path' = IF r.bob.state.tag # bob.state.tag
                           THEN Append(path, << r.bob.state.tag, Kinds(r.actions) >>)
                           ELSE path
                /\ UNCHANGED panicked
    /\ UNCHANGED << overflow_checks, refunded, muxVars, runVars >>

Msg0 == ~panicked /\ \E t \in Msg0s : Apply(t)
Contract == ~panicked /\ \E t \in Contracts(bob) : Apply(t)
EncSig == ~panicked /\ \E t \in EncSigs(bob.swap) : Apply(t)
XmrLockVerified == ~panicked /\ \E t \in XmrLocks(bob.swap) : Apply(t)
BchConfirmedTx == ~panicked /\ \E t \in BchConfirmedTxs(bob.swap) : Apply(t)
SetXmrRestoreHeight == ~panicked /\ \E t \in SetXmrRestoreHeights : Apply(t)

\* a driver calls bob.refund()
Refund ==
    /\ ~panicked
    /\ \E r \in {refund(bob, overflow_checks)} :
           /\ refunded' = [of |-> bob.state, res |-> r]
           /\ panicked' = (r = Panic)
    /\ UNCHANGED << bob, prev, lastT, lastRes, path, overflow_checks, muxVars, runVars >>

\* ------------------------------------------------------------------------
\* TcpElectrum (blockchain/mod.rs)
\* ------------------------------------------------------------------------
Senders == 1 .. NSend
Subscribers == {"s1", "s2"}

\* inbound lines: one that parses as HasId { id }, and a notification
IdLine(i, k) == [id |-> i, copy |-> k]
NoteLine(n) == [note |-> n]
HasId(line) == "id" \in DOMAIN line

\* the frame of a request, as the two chunks a partial write splits it into
Frame(i) == << [frame |-> i, part |-> 1], [frame |-> i, part |-> 2] >>

NoLine == [noline |-> TRUE]

\* a broadcast::Receiver: since = the notification lines read before it subscribed
NoReceiver == [active |-> FALSE, unread |-> << >>, got |-> {}, since |-> 0]

\* TcpElectrum::new
InitMux ==
    /\ id = 0
    /\ futures = << >>
    /\ pc = [p \in Senders |-> "idle"]
    /\ myid = [p \in Senders |-> 0]
    /\ slot = [p \in Senders |-> NoLine]
    /\ got = [p \in Senders |-> NoLine]
    /\ written = << >>
    /\ copies = [i \in 0 .. NSend - 1 |-> 0]
    /\ extras = 0
    /\ log = {}
    /\ reader = "running"
    /\ notes = 0
    /\ subs = [s \in Subscribers |-> NoReceiver]

\* mutant: the counter is read but not advanced
SameId(n) == n

\* *guard += 1
NextId(n) == n + 1

\* send: let id = guard.clone(); *guard += 1
AllocId(p) ==
    /\ pc[p] = "idle"
    /\ myid' = [myid EXCEPT ![p] = id]
    /\ id' = NextId(id)
    /\ pc' = [pc EXCEPT ![p] = "allocated"]
    /\ UNCHANGED << bobVars, runVars, futures, slot, got, written, copies, extras, log, reader, notes, subs >>

\* HashMap::insert(id, sender)
Insert(map, i, p) == [k \in DOMAIN map \cup {i} |-> IF k = i THEN p ELSE map[k]]

\* send: guard.insert(id, sender)
Register(p) ==
    /\ pc[p] = "allocated"
    /\ futures' = Insert(futures, myid[p], p)
    /\ pc' = [pc EXCEPT ![p] = "registered"]
    /\ UNCHANGED << bobVars, runVars, id, myid, slot, got, written, copies, extras, log, reader, notes, subs >>

\* mutant: the frame may be written before the slot is in the table
WrittenUnregistered(p) == pc[p] \in {"allocated", "registered"}

\* send: the write follows guard.insert(id, sender) and the release of the table
SlotInserted(p) == pc[p] = "registered"

\* send: guard.write(&payload).await.map_err(IoError)? under the stream_write lock;
\* write may take the whole frame or a part of it, or fail
Write(p) ==
    /\ SlotInserted(p)
    /\ \E outcome \in {"all", "part", "error"} :
          /\ written' = CASE outcome = "all" -> written \o Frame(myid[p])
                          [] outcome = "part" -> Append(written, Frame(myid[p])[1])
                          [] outcome = "error" -> written
          /\ pc' = [pc EXCEPT ![p] = IF outcome = "error" THEN "IoError" ELSE "waiting"]
    /\ UNCHANGED << bobVars, runVars, id, futures, myid, slot, got, copies, extras, log, reader, notes, subs >>

\* the oneshot::Sender of a waiting call is gone with nothing sent into the channel
SenderDropped(p) == slot[p] = NoLine /\ myid[p] \notin DOMAIN futures

\* send: recv.await returns the line sent into the oneshot channel, or RecvError when
\* the sender was dropped without sending
Complete(p) ==
    /\ pc[p] = "waiting"
    /\ slot[p] # NoLine \/ SenderDropped(p)
    /\ got' = [got EXCEPT ![p] = slot[p]]
    /\ pc' = [pc EXCEPT ![p] = IF slot[p] # NoLine THEN "Ok" ELSE "RecvError"]
    /\ UNCHANGED << bobVars, runVars, id, futures, myid, slot, written, copies, extras, log, reader, notes, subs >>

\* the caller drops the future of send while it waits
Abandon(p) ==
    /\ pc[p] = "waiting"
    /\ pc' = [pc EXCEPT ![p] = "abandoned"]
    /\ UNCHANGED << bobVars, runVars, id, futures, myid, slot, got, written, copies, extras, log, reader, notes, subs >>

\* mutant: the slot is looked up but left in the table
KeepSlot(map, i) == map

\* HashMap::remove(&id)
Remove(map, i) == [k \in DOMAIN map \ {i} |-> map[k]]

\* the server answers request i: its frame has arrived whole and has no answer yet
Answerable(i) ==
    /\ copies[i] = 0
    /\ \E k \in 1 .. Len(written) : written[k] = Frame(i)[2]

\* mutant: lines are read on after the end of the stream
LoopUnbroken(task) == TRUE

\* process_reads: the loop runs until buf == "" breaks it or read_line panics
LoopRunning(task) == task = "running"

\* process_reads, Ok(HasId { id }): futures.remove(&id), then recv.send(buf)
ReadIdLine(i) ==
    /\ LoopRunning(reader)
    /\ \/ Answerable(i) /\ UNCHANGED extras
       \/ ~Answerable(i) /\ extras < MaxExtra /\ extras' = extras + 1
    /\ LET line == IdLine(i, copies[i] + 1)
       IN  /\ copies' = [copies EXCEPT ![i] = @ + 1]
           /\ IF i \in DOMAIN futures
              THEN LET p == futures[i]
                   IN  /\ futures' = Remove(futures, i)
                       /\ IF pc[p] = "abandoned"
                          THEN /\ log' = log \cup {[line |-> line, fate |-> "dropped"]}
                               /\ UNCHANGED slot
                          ELSE /\ log' = log \cup {[line |-> line, fate |-> "delivered"]}
                               /\ slot' = [slot EXCEPT ![p] = line]
              ELSE /\ log' = log \cup {[line |-> line, fate |-> "dropped"]}
                   /\ UNCHANGED << futures, slot >>
    /\ UNCHANGED << bobVars, runVars, id, pc, myid, got, written, reader, notes, subs >>

\* mutant: the channel retains one line fewer than its capacity
PublishShort(receiver, line) ==
    IF ~receiver.active THEN receiver
    ELSE LET queue == Append(receiver.unread, line)
         IN  [receiver EXCEPT
                 !.unread = IF Len(queue) >= BroadcastCapacity THEN Tail(queue) ELSE queue]

\* broadcast::Sender::send: every active receiver is handed the line; a receiver that
\* has more than the channel's capacity unread loses the oldest
Publish(receiver, line) ==
    IF ~receiver.active THEN receiver
    ELSE LET queue == Append(receiver.unread, line)
         IN  [receiver EXCEPT
                 !.unread = IF Len(queue) > BroadcastCapacity THEN Tail(queue) ELSE queue]

\* process_reads, Err(_): producer.send(buf)
ReadNote(limit) ==
    /\ LoopRunning(reader)
    /\ notes < limit
    /\ notes' = notes + 1
    /\ LET line == NoteLine(notes + 1)
       IN  /\ subs' = [s \in Subscribers |-> Publish(subs[s], line)]
           /\ log' = log \cup {[line |-> line,
                                fate |-> IF \E s \in Subscribers : subs[s].active
                                         THEN "published" ELSE "unheard"]}
    /\ UNCHANGED << bobVars, runVars, id, futures, pc, myid, slot, got, written, copies, extras, reader >>

\* mutant: the slots go with the task that ran process_reads
SlotsDropped(map) == << >>

\* the table when process_reads has ended: the task drops its Arc of the table, the
\* handle keeps its own, and the table with every sender in it lives on
SlotsKept(map) == map

\* process_reads: buf == "" breaks the loop; a failed read_line panics in unwrap
ReadEnd ==
    /\ reader = "running"
    /\ reader' \in {"exited", "panicked"}
    /\ futures' = SlotsKept(futures)
    /\ UNCHANGED << bobVars, runVars, id, pc, myid, slot, got, written, copies, extras, log, notes, subs >>

\* TcpElectrum::subscribe
Subscribe(s) ==
    /\ ~subs[s].active
    /\ subs' = [subs EXCEPT ![s] = [NoReceiver EXCEPT !.active = TRUE, !.since = notes]]
    /\ UNCHANGED << bobVars, runVars, id, futures, pc, myid, slot, got, written, copies, extras, log, reader, notes >>

\* broadcast::Receiver::recv
Recv(s) ==
    /\ subs[s].active
    /\ subs[s].unread # << >>
    /\ subs' = [subs EXCEPT ![s].unread = Tail(@), ![s].got = @ \cup {Head(subs[s].unread)}]
    /\ UNCHANGED << bobVars, runVars, id, futures, pc, myid, slot, got, written, copies, extras, log, reader, notes >>

\* the broadcast::Receiver is dropped
Unsubscribe(s) ==
    /\ subs[s].active
    /\ subs' = [subs EXCEPT ![s] = NoReceiver]
    /\ UNCHANGED << bobVars, runVars, id, futures, pc, myid, slot, got, written, copies, extras, log, reader, notes >>

\* requests multiplexed over the connection, with one notification receiver
NextMux ==
    \/ \E p \in Senders : AllocId(p)
    \/ \E p \in Senders : Register(p)
    \/ \E p \in Senders : Write(p)
    \/ \E p \in Senders : Complete(p)
    \/ \E p \in Senders : Abandon(p)
    \/ \E i \in 0 .. NSend - 1 : ReadIdLine(i)
    \/ ReadEnd
    \/ Subscribe("s1")

\* the notification feed
NextFeed ==
    \/ ReadNote(MaxNotes)
    \/ ReadIdLine(0)
    \/ \E s \in Subscribers : Subscribe(s)
    \/ \E s \in Subscribers : Recv(s)
    \/ \E s \in Subscribers : Unsubscribe(s)

\* ------------------------------------------------------------------------
\* scan_address_conf_tx (blockchain/mod.rs) and Runner (bob.rs)
\* ------------------------------------------------------------------------
\* one element of the array blockchain.address.get_history reports, together with
\* what blockchain.transaction.get reports for it afterwards: verbose is whether
\* that reply parses as TxInfo, confirmations the count it carries
HistoryEntry(tx, height, verbose, confirmations) ==
    [tx |-> tx, height |-> height, verbose |-> verbose, confirmations |-> confirmations]

\* mutant: entries the server lists as unconfirmed are not passed over
MempoolKept(height) == FALSE

\* tx["height"].as_u64().unwrap() == 0
InMempool(height) == height = 0

\* mutant: an entry one confirmation short of the floor is let through
BelowMinConfByTwo(confirmations, min_conf) == confirmations < min_conf - 1

\* tx_info.confirmations < min_conf
BelowMinConf(confirmations, min_conf) == confirmations < min_conf

\* the loop of scan_address_conf_tx from entry k on: the entries pushed, and whether
\* an unwrap failed on the way (a negative height is no u64; a reply without a
\* confirmation count is no TxInfo)
RECURSIVE ScanLoop(_, _, _)
ScanLoop(tx_hashes, min_conf, k) ==
    IF k > Len(tx_hashes) THEN [panic |-> FALSE, txs |-> << >>]
    ELSE LET tx == tx_hashes[k]
             rest == ScanLoop(tx_hashes, min_conf, k + 1)
         IN  IF tx.height < 0 THEN [panic |-> TRUE, txs |-> << >>]
             ELSE IF InMempool(tx.height) THEN rest
             ELSE IF ~tx.verbose THEN [panic |-> TRUE, txs |-> << >>]
             ELSE IF BelowMinConf(tx.confirmations, min_conf) THEN rest
             ELSE [rest EXCEPT !.txs = << tx >> \o @]

\* scan_address_conf_tx: the Vec it returns, or Panic; Runner::check_bch takes each
\* element as (tx, conf)
scan_address_conf_tx(tx_hashes, min_conf) ==
    LET r == ScanLoop(tx_hashes, min_conf, 1)
    IN  IF r.panic THEN Panic ELSE [txs |-> r.txs]

\* the entries the loop passed over before it ended or panicked, by reason
RECURSIVE PassedOver(_, _, _)
PassedOver(tx_hashes, min_conf, k) ==
    IF k > Len(tx_hashes) THEN {}
    ELSE LET tx == tx_hashes[k]
             rest == PassedOver(tx_hashes, min_conf, k + 1)
         IN  IF tx.height < 0 THEN {}
             ELSE IF InMempool(tx.height) THEN {"mempool"} \cup rest
             ELSE IF ~tx.verbose THEN {}
             ELSE IF BelowMinConf(tx.confirmations, min_conf) THEN {"below"} \cup rest
             ELSE rest

\* what a call of priv_transition leaves: the stored state, Ok / Err / Panic, the
\* effects outside the state in the order they happened, and how many times
\* Bob::transition was called
Outcome(inner, result, done, calls) ==
    [inner |-> inner, result |-> result, effects |-> done, calls |-> calls]

\* mutant: the height the wallet was created at is not fed back into the state
HeightDropped(new_state, height) == new_state

\* priv_transition, CreateXmrView:
\* new_state = new_state.transition(Transition::SetXmrRestoreHeight(height)).0
HeightRecorded(new_state, height) ==
    transition(new_state, [kind |-> "SetXmrRestoreHeight", height |-> height]).bob

\* priv_transition: for action in actions { ... }; self.inner = new_state
RECURSIVE RunActions(_, _, _, _, _, _, _, _)
RunActions(inner, new_state, actions, k, env, checks, done, calls) ==
    IF k > Len(actions) THEN Outcome(new_state, "Ok", done, calls)
    ELSE LET action == actions[k]
         IN  IF action.kind = "CreateXmrView"
             THEN IF ~env.get_block_count THEN Outcome(inner, "Err", done, calls)
                  ELSE IF ~env.generate_from_keys THEN Outcome(inner, "Err", done, calls)
                  ELSE LET made == Append(done, [effect |-> "generate_from_keys",
                                                 restore_height |-> env.height])
                       IN  IF ~env.close_wallet THEN Outcome(inner, "Err", made, calls)
                           ELSE RunActions(inner, HeightRecorded(new_state, env.height),
                                           actions, k + 1, env, checks, made, calls + 1)
             ELSE IF action.kind = "UnlockBchFallback"
             THEN LET txs == refund(new_state, checks)
                  IN  IF txs = None \/ txs = Panic THEN Outcome(inner, "Panic", done, calls)
                      ELSE IF env.broadcast1 = "failed"
                      THEN Outcome(inner, "Panic", done, calls)
                      ELSE LET first == Append(done, [effect |-> "broadcast", tx |-> 1,
                                                      reply |-> env.broadcast1])
                           IN  IF env.broadcast2 = "failed"
                               THEN Outcome(inner, "Panic", first, calls)
                               ELSE RunActions(inner, new_state, actions, k + 1, env, checks,
                                               Append(first, [effect |-> "broadcast",
                                                              tx |-> 2,
                                                              reply |-> env.broadcast2]),
                                               calls)
             ELSE RunActions(inner, new_state, actions, k + 1, env, checks, done, calls)

\* Runner::priv_transition
priv_transition(inner, t, env, checks) ==
    LET r == transition(inner, t)
    IN  IF r = Panic THEN Outcome(inner, "Panic", << >>, 1)
        ELSE IF r.error # NoError THEN Outcome(inner, "Err", << >>, 1)
        ELSE RunActions(inner, r.bob, r.actions, 1, env, checks, << >>, 1)

\* mutant: every transition is passed on
pub_transition_any(inner, t, env, checks) == priv_transition(inner, t, env, checks)

\* Runner::pub_transition
pub_transition(inner, t, env, checks) ==
    IF t.kind \in {"Msg0", "Contract", "EncSig"}
    THEN priv_transition(inner, t, env, checks)
    ELSE Outcome(inner, "Err", << >>, 0)

\* what check_bch has done so far
Progress(inner, result, done, scanned, passed, given) ==
    [inner |-> inner, result |-> result, effects |-> done,
     returned |-> scanned, skipped |-> passed, fed |-> given]

\* check_bch: for (tx, conf) in txs { let _ = self.priv_transition(..).await; }
RECURSIVE FeedLoop(_, _, _, _, _)
FeedLoop(st, txs, k, env, checks) ==
    IF k > Len(txs) \/ st.result = "Panic" THEN st
    ELSE LET t == [kind |-> "BchConfirmedTx", tx |-> txs[k].tx,
                   conf |-> txs[k].confirmations]
             o == priv_transition(st.inner, t, env, checks)
         IN  FeedLoop(Progress(o.inner,
                               IF o.result = "Panic" THEN "Panic" ELSE "Ok",
                               st.effects \o o.effects, st.returned, st.skipped,
                               st.fed \cup {t.conf}),
                      txs, k + 1, env, checks)

\* check_bch: for address in [swaplock, refund] { let txs = scan_address_conf_tx(..) }
RECURSIVE AddressLoop(_, _, _, _, _, _, _)
AddressLoop(st, addresses, k, server, min_conf, env, checks) ==
    IF k > Len(addresses) \/ st.result = "Panic" THEN st
    ELSE LET tx_hashes == server[addresses[k]]
             scanned == scan_address_conf_tx(tx_hashes, min_conf)
             txs == scanned.txs
             passed == st.skipped \cup PassedOver(tx_hashes, min_conf, 1)
         IN  IF scanned = Panic
             THEN Progress(st.inner, "Panic", st.effects, st.returned, passed, st.fed)
             ELSE AddressLoop(
                      FeedLoop(Progress(st.inner, st.result, st.effects,
                                        st.returned \cup
                                            { [height |-> txs[i].height,
                                               conf |-> txs[i].confirmations] :
                                                i \in 1 .. Len(txs) },
                                        passed, st.fed),
                               txs, 1, env, checks),
                      addresses, k + 1, server, min_conf, env, checks)

\* Runner::check_bch
check_bch(inner, server, min_conf, env, checks) ==
    LET contract == get_contract_pair(inner)
        start == Progress(inner, "Ok", << >>, {}, {}, {})
    IN  IF contract = None THEN start
        ELSE AddressLoop(start,
                         << cash_address(contract.swaplock), cash_address(contract.refund) >>,
                         1, server, min_conf, env, checks)

\* Runner::check_xmr
check_xmr(inner, wallet, env, checks) ==
    IF ~wallet.open_wallet \/ ~wallet.get_balance THEN Outcome(inner, "Err", << >>, 0)
    ELSE LET balance == IF inner.swap.xmr_network = "Mainnet"
                        THEN wallet.unlocked_balance
                        ELSE wallet.balance
         IN  IF balance # inner.swap.xmr_amount THEN Outcome(inner, "Ok", << >>, 0)
             ELSE LET o == priv_transition(inner,
                                           [kind |-> "XmrLockVerified", amount |-> balance],
                                           env, checks)
                  IN  Outcome(o.inner, IF o.result = "Panic" THEN "Panic" ELSE "Ok",
                              o.effects, o.calls)

\* what the services around the runner do during one call: the daemon and wallet
\* RPCs succeed or fail; to a broadcast the server replies that it accepted the
\* transaction or that it rejected it (send returns Ok with either reply), or send
\* fails
Env(daemon, generate, close, height, first, second) ==
    [get_block_count |-> daemon, generate_from_keys |-> generate, close_wallet |-> close,
     height |-> height, broadcast1 |-> first, broadcast2 |-> second]
AllServed == Env(TRUE, TRUE, TRUE, 8, "accepted", "accepted")
WalletEnvs ==
    { AllServed, Env(FALSE, TRUE, TRUE, 8, "accepted", "accepted"),
      Env(TRUE, FALSE, TRUE, 8, "accepted", "accepted"),
      Env(TRUE, TRUE, FALSE, 8, "accepted", "accepted") }
BroadcastEnvs ==
    { AllServed, Env(TRUE, TRUE, TRUE, 8, "failed", "accepted"),
      Env(TRUE, TRUE, TRUE, 8, "accepted", "failed"),
      Env(TRUE, TRUE, TRUE, 8, "accepted", "rejected"),
      Env(TRUE, TRUE, TRUE, 8, "rejected", "rejected") }

\* the services a transition of a kind can come to use
EnvsFor(t) ==
    IF t.kind = "Msg0" THEN WalletEnvs
    ELSE IF t.kind = "BchConfirmedTx" THEN BroadcastEnvs
    ELSE {AllServed}

\* what the wallet RPC answers to check_xmr
Wallets(swap) ==
    { [open_wallet |-> o, get_balance |-> g, balance |-> b, unlocked_balance |-> u] :
        o \in BOOLEAN, g \in BOOLEAN,
        b \in {swap.xmr_amount, swap.xmr_amount - 1},
        u \in {swap.xmr_amount, swap.xmr_amount - 1} }

\* the transactions of the session that pay into a contract address: the funding of
\* the SwapLock contract, and the payment into the Refund contract
OnAddress(swap, address) ==
    LET pair == SessionPair(swap)
    IN  IF pair = None THEN << >>
        ELSE IF address = cash_address(pair.swaplock)
        THEN << CHOOSE tx \in Txs(swap) : tx.txid = 1 >>
        ELSE IF address = cash_address(pair.refund)
        THEN << CHOOSE tx \in Txs(swap) : tx.txid = 2 >>
        ELSE << >>

\* what the server can report of one transaction. The history lists it unconfirmed
\* with unconfirmed parents (height -1), unconfirmed (height 0) or in a block
\* (height 1). The later reply to blockchain.transaction.get is a separate reading
\* of the chain: it carries a confirmation count, which is 0 when the block has been
\* reorganised away meanwhile, or none when the transaction is unconfirmed by then
Reports(tx) ==
    { HistoryEntry(tx, -1, FALSE, 0) } \cup
    { HistoryEntry(tx, h, FALSE, 0) : h \in {0, 1} } \cup
    { HistoryEntry(tx, h, TRUE, c) : h \in {0, 1}, c \in 0 .. MaxConf }

\* the histories the server can report of an address: each transaction that touches
\* it listed or not
RECURSIVE Histories(_)
Histories(txs) ==
    IF txs = << >> THEN { << >> }
    ELSE LET rest == Histories(Tail(txs))
         IN  rest \cup { << e >> \o h : e \in Reports(Head(txs)), h \in rest }

\* the last call of a Runner method was neither pub_transition nor priv_transition
NoRequest == [method |-> "None", kind |-> "None", calls |-> 0]

\* a peer's message arrives: runner.pub_transition(t)
PubTransition ==
    /\ ~panicked
    /\ \E t \in Msg0s \cup Contracts(bob) \cup EncSigs(bob.swap) \cup XmrLocks(bob.swap)
                \cup SetXmrRestoreHeights
                \cup { t \in BchConfirmedTxs(bob.swap) : t.tx.txid = 3 /\ t.conf = MaxConf } :
          \E env \in EnvsFor(t) :
          \E o \in {pub_transition(bob, t, env, overflow_checks)} :
              /\ asked' = [method |-> "pub_transition", kind |-> t.kind, calls |-> o.calls]
              /\ bob' = o.inner
              /\ ended' = o.result
              /\ effects' = o.effects
              /\ panicked' = (o.result = "Panic")
    /\ UNCHANGED << prev, lastT, lastRes, path, overflow_checks, refunded, muxVars,
                    min_bch_conf, returned, skipped, fed >>

\* a caller that holds the runner calls runner.priv_transition(t), a pub fn, with
\* an event it has observed
PrivTransition ==
    /\ ~panicked
    /\ \E t \in XmrLocks(bob.swap) \cup BchConfirmedTxs(bob.swap) \cup SetXmrRestoreHeights :
          \E env \in EnvsFor(t) :
          \E o \in {priv_transition(bob, t, env, overflow_checks)} :
              /\ asked' = [method |-> "priv_transition", kind |-> t.kind,
                            calls |-> o.calls]
              /\ bob' = o.inner
              /\ ended' = o.result
              /\ effects' = o.effects
              /\ panicked' = (o.result = "Panic")
    /\ UNCHANGED << prev, lastT, lastRes, path, overflow_checks, refunded, muxVars,
                    min_bch_conf, returned, skipped, fed >>

\* the poll of the Monero wallet: runner.check_xmr()
CheckXmr ==
    /\ ~panicked
    /\ \E wallet \in Wallets(bob.swap) :
          \E o \in {check_xmr(bob, wallet, AllServed, overflow_checks)} :
              /\ asked' = NoRequest
              /\ bob' = o.inner
              /\ ended' = o.result
              /\ effects' = o.effects
              /\ panicked' = (o.result = "Panic")
    /\ UNCHANGED << prev, lastT, lastRes, path, overflow_checks, refunded, muxVars,
                    min_bch_conf, returned, skipped, fed >>

\* the poll of the BCH chain: runner.check_bch()
CheckBch ==
    /\ ~panicked
    /\ LET contract == get_contract_pair(bob)
           swaplock == IF contract = None THEN None ELSE cash_address(contract.swaplock)
           refund_address == IF contract = None THEN None
                             ELSE cash_address(contract.refund)
       IN  \E on_swaplock \in Histories(OnAddress(bob.swap, swaplock)),
              on_refund \in Histories(OnAddress(bob.swap, refund_address)) :
              LET server == [a \in {swaplock, refund_address} |->
                                IF a = swaplock THEN on_swaplock ELSE on_refund]
              IN  \E served \in {check_bch(bob, server, min_bch_conf, AllServed,
                                            overflow_checks)} :
                  \* a broadcast can only fail in a poll that attempts one
                  \E env \in IF served.effects = << >> THEN {AllServed} ELSE BroadcastEnvs :
                  \E o \in {IF env = AllServed THEN served
                            ELSE check_bch(bob, server, min_bch_conf, env, overflow_checks)} :
                  /\ asked' = NoRequest
                  /\ bob' = o.inner
                  /\ ended' = o.result
                  /\ effects' = o.effects
                  /\ returned' = o.returned
                  /\ skipped' = o.skipped
                  /\ fed' = o.fed
                  /\ panicked' = (o.result = "Panic")
    /\ UNCHANGED << prev, lastT, lastRes, path, overflow_checks, refunded, muxVars,
                    min_bch_conf >>

InitRun(floors) ==
    /\ min_bch_conf \in floors
    /\ returned = {}
    /\ skipped = {}
    /\ fed = {}
    /\ effects = << >>
    /\ ended = "None"
    /\ asked = NoRequest

NextRunner ==
    \/ PubTransition
    \/ CheckXmr
    \/ CheckBch

InitRunner ==
    /\ InitBob
    /\ bob.swap.timelock1 = 2
    /\ InitMux
    /\ InitRun(0 .. MaxMinConf)

SpecRunner == InitRunner /\ [][NextRunner]_vars

\* the runner driven by the peer's messages, the wallet poll, and a caller that
\* reports chain events through priv_transition
NextDriver ==
    \/ PubTransition
    \/ PrivTransition
    \/ CheckXmr

InitDriver ==
    /\ InitBob
    /\ bob.swap.timelock1 = 2
    /\ InitMux
    /\ InitRun({1})

SpecDriver == InitDriver /\ [][NextDriver]_vars

\* the runner whose owner calls check_bch again and again
SpecPolling == InitDriver /\ [][NextRunner]_vars /\ WF_vars(CheckBch)

InitElectrum ==
    /\ InitMux
    /\ InitBob
    /\ InitRun({1})
    /\ bob.swap.timelock1 = 2 /\ bob.swap.bch_amount = 5000 /\ overflow_checks

SpecMux == InitElectrum /\ [][NextMux]_vars

SpecFeed == InitElectrum /\ [][NextFeed]_vars

Init == InitBob /\ InitMux /\ InitRun({1})

Next ==
    \/ Msg0
    \/ Contract
    \/ EncSig
    \/ XmrLockVerified
    \/ BchConfirmedTx
    \/ SetXmrRestoreHeight
    \/ Refund

Spec == Init /\ [][Next]_vars

\* ------------------------------------------------------------------------
\* Properties of Bob::transition and Bob::refund
\* ------------------------------------------------------------------------
Called == lastT # None

\* the (variant, kind) pairs of the transition table
TablePair(state, t) ==
    \/ state.tag = "Init" /\ t.kind = "Msg0"
    \/ state.tag = "WithAliceKey" /\ t.kind = "Contract"
    \/ state.tag = "ContractMatch" /\ t.kind = "EncSig"
    \/ state.tag = "VerifiedEncSig" /\ t.kind = "XmrLockVerified"
    \/ state.tag = "VerifiedEncSig" /\ t.kind = "BchConfirmedTx"
    \/ state.tag = "MoneroLocked" /\ t.kind = "BchConfirmedTx"
    \/ state.tag # "Init" /\ t.kind = "SetXmrRestoreHeight"

\* the guard of a table row for BchConfirmedTx in VerifiedEncSig
RefundRowGuard(state, t, swap) ==
    LET found == analyze_tx(state.contract_pair, t.tx)
    IN  /\ found # None
        /\ \/ found.type = "ToSwapLock" /\ t.conf >= swap.timelock1
           \/ found.type = "ToRefund"

LegalEdge(state, t, swap) ==
    /\ TablePair(state, t)
    /\ (state.tag = "VerifiedEncSig" /\ t.kind = "BchConfirmedTx")
           => RefundRowGuard(state, t, swap)

\* the pairs that no arm of transition handles
CatchAllPair(state, t) ==
    /\ t.kind # "SetXmrRestoreHeight"
    /\ ~TablePair(state, t)

\* C1 as stated: every call that is not a legal edge of the table returns the input
\* state unchanged together with InvalidStateTransition
C1_AsStated ==
    (Called /\ ~LegalEdge(prev, lastT, bob.swap))
        => /\ bob.state = prev
           /\ lastRes.error = "InvalidStateTransition"

\* C1 amended: a call that is not a legal edge returns the input state unchanged and
\* no action; it returns InvalidStateTransition exactly when the pair reaches the
\* catch-all arm, and no error for SetXmrRestoreHeight in Init and for BchConfirmedTx
\* in VerifiedEncSig when no row's guard is met
C1_IllegalEdges ==
    (Called /\ ~LegalEdge(prev, lastT, bob.swap))
        => /\ bob.state = prev
           /\ lastRes.actions = << >>
           /\ lastRes.error = IF CatchAllPair(prev, lastT)
                              THEN "InvalidStateTransition" ELSE NoError

C1_Witness ==
    /\ Called
    /\ prev.tag = "MoneroLocked"
    /\ lastT.kind = "EncSig"
    /\ lastRes.error = "InvalidStateTransition"

\* C2: whenever transition returns an error, the returned state is the input state,
\* variant and fields
C2_ErrorKeepsState ==
    (Called /\ lastRes.error # NoError) => bob.state = prev

C2_Witness ==
    /\ Called
    /\ prev.tag = "VerifiedEncSig"
    /\ lastRes.error = "InvalidXmrAmount"
    /\ bob.state = prev

\* C3: in Init a Msg0 whose proof does not verify returns Init, [SafeDelete] and
\* InvalidProof, and ContractPair::create is not called, whatever the timelocks
C3_InvalidProof ==
    (/\ Called
     /\ prev.tag = "Init"
     /\ lastT.kind = "Msg0"
     /\ ~proof_verify(lastT.keys.proof, lastT.keys.spend_bch, lastT.keys.monero_spend))
        => /\ bob.state = StateInit
           /\ lastRes.actions = << SafeDelete >>
           /\ lastRes.error = "InvalidProof"
           /\ ~lastRes.created

C3_Witness ==
    /\ Called
    /\ prev.tag = "Init"
    /\ lastT.kind = "Msg0"
    /\ ~lastT.keys.proof.sound
    /\ ~TimelockValid(bob.swap.timelock1)
    /\ lastRes.error = "InvalidProof"

\* the inputs of the happy path, stage by stage
HappyInput(state, t, swap) ==
    \/ /\ state.tag = "Init" /\ t.kind = "Msg0"
       /\ proof_verify(t.keys.proof, t.keys.spend_bch, t.keys.monero_spend)
       /\ TimelockValid(swap.timelock1) /\ TimelockValid(swap.timelock2)
    \/ /\ state.tag = "WithAliceKey" /\ t.kind = "Contract"
       /\ t.bch_address = cash_address(state.contract_pair.swaplock)
       /\ t.xmr_address = Address_from_viewpair(state.shared_keypair)
    \/ /\ state.tag = "ContractMatch" /\ t.kind = "EncSig"
       /\ t.enc_sig = AliceEncSig(swap)
    \/ /\ state.tag = "VerifiedEncSig" /\ t.kind = "XmrLockVerified"
       /\ t.amount = swap.xmr_amount
    \/ /\ state.tag = "MoneroLocked" /\ t.kind = "BchConfirmedTx"
       /\ t.tx.inputs > 0
       /\ t.tx.sig = DisclosedPlainSig(swap)

HappyOutcome ==
    [Init |-> << "WithAliceKey", << "CreateXmrView" >> >>,
     WithAliceKey |-> << "ContractMatch", << >> >>,
     ContractMatch |-> << "VerifiedEncSig", << "LockBch", "WatchXmr" >> >>,
     VerifiedEncSig |-> << "MoneroLocked", << >> >>,
     MoneroLocked |-> << "SwapSuccess", << "TradeSuccess" >> >>]

HappyPath ==
    << HappyOutcome["Init"], HappyOutcome["WithAliceKey"], HappyOutcome["ContractMatch"],
       HappyOutcome["VerifiedEncSig"], HappyOutcome["MoneroLocked"] >>

\* C4: each happy-path input moves to the next variant of Init, WithAliceKey,
\* ContractMatch, VerifiedEncSig, MoneroLocked, SwapSuccess with the actions
\* [CreateXmrView], [], [LockBch, WatchXmr], [], [TradeSuccess] and no error; a
\* session in SwapSuccess has passed through exactly these steps, and after the
\* disclosed plain signature its spend secret is Bob's plus Alice's spend secret
C4_HappyPath ==
    /\ (Called /\ HappyInput(prev, lastT, bob.swap))
          => /\ lastRes.error = NoError
             /\ << bob.state.tag, Kinds(lastRes.actions) >> = HappyOutcome[prev.tag]
             /\ (prev.tag = "MoneroLocked")
                   => bob.state.key_pair.spend =
                          [key |-> ScalarAdd(bob.swap.keys.monero_spend, AliceSecret.spend)]
    /\ (bob.state.tag = "SwapSuccess") => path = HappyPath

C4_Witness ==
    /\ Called
    /\ prev.tag = "MoneroLocked"
    /\ HappyInput(prev, lastT, bob.swap)
    /\ bob.state.tag = "SwapSuccess"
    /\ path = HappyPath
    /\ bob.state.key_pair.spend =
           [key |-> ScalarAdd(bob.swap.keys.monero_spend, AliceSecret.spend)]

\* the last call gave a transaction funding the SwapLock contract to VerifiedEncSig
FundingSeen ==
    /\ Called
    /\ prev.tag = "VerifiedEncSig"
    /\ lastT.kind = "BchConfirmedTx"
    /\ lastT.tx.output = locking_script(prev.contract_pair.swaplock)

\* C5: from VerifiedEncSig a transaction funding the SwapLock contract gives
\* ProceedRefund with [UnlockBchFallback] if and only if its confirmations are at
\* least timelock1
C5_RefundAfterTimelock ==
    FundingSeen
        => /\ (bob.state.tag = "ProceedRefund") <=> (lastT.conf >= bob.swap.timelock1)
           /\ (bob.state.tag = "ProceedRefund")
                  => lastRes.actions = << UnlockBchFallback >>
           /\ (bob.state.tag # "ProceedRefund")
                  => (bob.state = prev /\ lastRes.actions = << >>)

C5_Witness ==
    /\ FundingSeen
    /\ lastT.conf = bob.swap.timelock1
    /\ bob.state.tag = "ProceedRefund"
    /\ lastRes.actions = << UnlockBchFallback >>

\* C6: refund returns a pair exactly in ProceedRefund; tx2's single input references
\* output 0 of tx1, tx1 pays bch_amount less one mining fee to the Refund contract
\* and tx2 pays bch_amount less two mining fees to Bob's receiving script
C6_Refund ==
    (refunded # None)
        => LET r == refunded.res
               props == refunded.of
           IN  /\ (r # None) <=> (props.tag = "ProceedRefund")
               /\ (props.tag = "ProceedRefund")
                     => /\ r # Panic
                        /\ Len(r.tx2.input) = 1
                        /\ r.tx2.input[1].previous_output =
                               [txid |-> Txid(r.tx1), vout |-> 0]
                        /\ r.tx1.output =
                               << [value |-> [sat |-> bob.swap.bch_amount - MiningFee],
                                   script_pubkey |->
                                       locking_script(props.contract_pair.refund)] >>
                        /\ r.tx2.output =
                               << [value |-> [sat |-> bob.swap.bch_amount - 2 * MiningFee],
                                   script_pubkey |-> bob.swap.bch_recv] >>


\* ------------------------------------------------------------------------
\* Properties of TcpElectrum
\* ------------------------------------------------------------------------
Range(seq) == {seq[k] : k \in 1 .. Len(seq)}

\* position of the first chunk of frame i in the bytes written (0: not written)
WrittenAt(i) ==
    IF \E k \in 1 .. Len(written) : written[k] = Frame(i)[1]
    THEN CHOOSE k \in 1 .. Len(written) : written[k] = Frame(i)[1]
    ELSE 0

\* C7: every send that completes returns the line that carries the id it allocated,
\* and no two send calls hold the same id
C7_OwnResponse ==
    /\ \A p \in Senders :
          (pc[p] = "Ok") => (HasId(got[p]) /\ got[p].id = myid[p])
    /\ \A p, q \in Senders :
          (p # q /\ pc[p] # "idle" /\ pc[q] # "idle") => myid[p] # myid[q]

\* two requests are written, and the one written later is answered first
C7_Witness ==
    \E p, q \in Senders :
        /\ p # q
        /\ pc[p] = "Ok" /\ got[p].id = myid[p]
        /\ pc[q] = "waiting" /\ slot[q] = NoLine
        /\ WrittenAt(myid[q]) > 0
        /\ WrittenAt(myid[p]) > WrittenAt(myid[q])

Delivered(i) == {e \in log : HasId(e.line) /\ e.line.id = i /\ e.fate = "delivered"}
Dropped == {e \in log : HasId(e.line) /\ e.fate = "dropped"}

\* what a receiver has been handed
Handed(receiver) == receiver.got \cup Range(receiver.unread)

\* C8: a request id is delivered a line at most once; the first line found with a
\* pending slot removes the slot, and a line with an id that finds no slot is
\* dropped: it reaches no send call and no subscriber
C8_AtMostOnce ==
    /\ \A i \in 0 .. NSend - 1 :
          /\ Cardinality(Delivered(i)) <= 1
          /\ (Delivered(i) # {}) => i \notin DOMAIN futures
    /\ \A e \in Dropped :
          /\ \A p \in Senders : slot[p] # e.line /\ got[p] # e.line
          /\ \A s \in Subscribers : e.line \notin Handed(subs[s])
    /\ \A e \in log : HasId(e.line) => e.fate \in {"delivered", "dropped"}

\* a response was delivered and returned, its delayed duplicate was dropped, with a
\* subscriber listening
C8_Witness ==
    \E p \in Senders :
        /\ pc[p] = "Ok"
        /\ got[p] = IdLine(myid[p], 1)
        /\ [line |-> IdLine(myid[p], 1), fate |-> "delivered"] \in log
        /\ [line |-> IdLine(myid[p], 2), fate |-> "dropped"] \in log
        /\ subs["s1"].active

\* the notification lines read while a receiver has been subscribed
ReadSince(receiver) == {NoteLine(k) : k \in (receiver.since + 1) .. notes}

\* nothing but notification lines read after subscribing is handed to a receiver
OnlyOwnNotes ==
    \A s \in Subscribers :
        /\ Handed(subs[s]) \subseteq ReadSince(subs[s])
        /\ ~subs[s].active => Handed(subs[s]) = {}

\* C9 as stated: every notification line read while a subscriber is active is
\* delivered to it whatever its reading pace, and a line read with no active
\* subscriber is delivered to nobody
C9_AsStated ==
    /\ \A s \in Subscribers :
          subs[s].active => ReadSince(subs[s]) \subseteq Handed(subs[s])
    /\ OnlyOwnNotes

\* C9 amended: a notification line read while a subscriber is active is delivered
\* to it provided fewer than BroadcastCapacity further notification lines are read
\* before the subscriber receives it; a line read with no active subscriber is
\* delivered to nobody and kept for nobody
C9_Retained ==
    /\ \A s \in Subscribers :
          subs[s].active =>
              \A k \in (subs[s].since + 1) .. notes :
                  (notes - k < BroadcastCapacity) => NoteLine(k) \in Handed(subs[s])
    /\ OnlyOwnNotes

\* a slow subscriber has lost its oldest line while the other has received every
\* line read since it subscribed
C9_Witness ==
    \E s, t \in Subscribers :
        /\ subs[s].active /\ subs[t].active
        /\ NoteLine(subs[s].since + 1) \in ReadSince(subs[s]) \ Handed(subs[s])
        /\ Len(subs[s].unread) = BroadcastCapacity
        /\ subs[t].since > 0
        /\ ReadSince(subs[t]) # {}
        /\ subs[t].got = ReadSince(subs[t])

\* ------------------------------------------------------------------------
\* Properties of scan_address_conf_tx and Runner
\* ------------------------------------------------------------------------
\* the confirmation counts of what the last scans returned
ReturnedConfs == { e.conf : e \in returned }

\* C10 as stated: scan_address_conf_tx never returns a transaction with zero
\* confirmations nor one with fewer than min_conf, and check_bch never feeds one
C10_AsStated ==
    /\ \A c \in ReturnedConfs : c # 0 /\ c >= min_bch_conf
    /\ \A c \in fed : c # 0 /\ c >= min_bch_conf

\* C10: scan_address_conf_tx never returns an entry the history lists at height 0
\* and never one whose reported confirmation count is below min_conf, so that with
\* min_conf >= 1 it returns none with zero confirmations; check_bch feeds only what
\* the scans returned
C10_Filtered ==
    /\ \A e \in returned :
          /\ e.height # 0
          /\ e.conf >= min_bch_conf
          /\ min_bch_conf >= 1 => e.conf # 0
    /\ fed \subseteq ReturnedConfs

\* a poll passed over a mempool entry at one address and fed the confirmed
\* transaction of the other, under a floor of at least one confirmation
C10_Witness ==
    /\ min_bch_conf >= 1
    /\ "mempool" \in skipped
    /\ fed # {}

\* the kinds that do not come from the peer
Internal == {"XmrLockVerified", "BchConfirmedTx", "SetXmrRestoreHeight"}

\* C11: pub_transition calls the state machine only for Msg0, Contract and EncSig;
\* for XmrLockVerified, BchConfirmedTx and SetXmrRestoreHeight it returns an error
\* with no call of the state machine, no action executed and the stored state as
\* it was
C11_PubGate ==
    /\ [](asked.method = "pub_transition" /\ asked.calls >= 1 =>
             asked.kind \in {"Msg0", "Contract", "EncSig"})
    /\ [](asked.method = "pub_transition" /\ asked.kind \in Internal =>
             asked.calls = 0 /\ ended = "Err" /\ effects = << >>)
    /\ [][asked'.method = "pub_transition" /\ asked'.kind \in Internal => bob' = bob]_vars

\* pub_transition was given SetXmrRestoreHeight in a state whose restore height the
\* state machine would have replaced
C11_Witness ==
    /\ asked.method = "pub_transition"
    /\ asked.kind = "SetXmrRestoreHeight"
    /\ bob.state.tag = "WithAliceKey"
    /\ ended = "Err"

\* every broadcast among the effects was accepted by the server
Broadcast(done) ==
    \A i \in 1 .. Len(done) : done[i].effect = "broadcast" => done[i].reply = "accepted"

\* C12: priv_transition replaces the stored state only when the transition returned
\* no error and every action was executed successfully; when the transition
\* returns an error or an action fails, the stored state is the state before the
\* call
C12_AllOrNothing ==
    [][/\ bob' # bob => ended' = "Ok" /\ Broadcast(effects')
       /\ ended' \in {"Err", "Panic"} => bob' = bob]_vars

\* the last call returned the SafeDelete action
Purging == \E i \in 1 .. Len(lastRes.actions) : lastRes.actions[i].kind = "SafeDelete"

\* C13: transition returns SafeDelete exactly with InvalidProof, InvalidTimelock and
\* InvalidSignature, which arise only in Init and ContractMatch; never with another
\* error, and never in a state from VerifiedEncSig onwards
C13_SafeDelete ==
    Called =>
        /\ Purging <=> lastRes.error \in {"InvalidProof", "InvalidTimelock", "InvalidSignature"}
        /\ Purging => lastRes.actions = << SafeDelete >>
        /\ Purging => prev.tag \in {"Init", "ContractMatch"}
        /\ lastRes.error \in {"InvalidProof", "InvalidTimelock"} => prev.tag = "Init"
        /\ lastRes.error = "InvalidSignature" => prev.tag = "ContractMatch"

\* an encrypted signature that does not verify was refused in ContractMatch with
\* SafeDelete
C13_Witness ==
    /\ Called
    /\ prev.tag = "ContractMatch"
    /\ lastRes.error = "InvalidSignature"
    /\ Purging

\* the last call was SetXmrRestoreHeight, given a state of one of the variants
Heightened(tags) == Called /\ lastT.kind = "SetXmrRestoreHeight" /\ prev.tag \in tags

\* the state after the last call is the state before it with the height replaced
HeightReplaced ==
    /\ bob.state = [prev EXCEPT !.xmr_restore_height = lastT.height]
    /\ lastRes.actions = << >>
    /\ lastRes.error = NoError

\* C14 as stated: in each of the six variants that carry a restore height,
\* SetXmrRestoreHeight(h) returns the variant with the height h and all else
\* unchanged, no action and no error
C14_AsStated ==
    Heightened({"WithAliceKey", "ContractMatch", "VerifiedEncSig", "MoneroLocked",
                "ProceedRefund", "SwapSuccess"}) => HeightReplaced

\* C14: SetXmrRestoreHeight(h) replaces the height, and nothing else, in
\* WithAliceKey, ContractMatch, VerifiedEncSig and MoneroLocked; in ProceedRefund
\* and SwapSuccess (and Init) it returns the state as it was; in every state with
\* no action and no error
C14_SetHeight ==
    /\ Heightened({"WithAliceKey", "ContractMatch", "VerifiedEncSig", "MoneroLocked"})
           => HeightReplaced
    /\ Heightened({"Init", "ProceedRefund", "SwapSuccess"})
           => bob.state = prev /\ lastRes.actions = << >> /\ lastRes.error = NoError

\* a height other than the stored one was set in MoneroLocked
C14_Witness ==
    /\ Heightened({"MoneroLocked"})
    /\ prev.xmr_restore_height # lastT.height
    /\ bob.state.xmr_restore_height = lastT.height

\* some byte of the frame of request i has been written
Started(i) == \E k \in 1 .. Len(written) : written[k].frame = i

\* C15: the slot of id i is in the table before any byte of the frame with id i is
\* written, so that the first line read for a written request finds the slot
C15_RegisteredFirst ==
    \A i \in 0 .. NSend - 1 :
        /\ Started(i) /\ copies[i] = 0 => i \in DOMAIN futures
        /\ Answerable(i) => i \in DOMAIN futures

\* a request is written whole and unanswered with its slot in the table, while
\* another call has its id and has not yet registered
C15_Witness ==
    \E p, q \in Senders :
        /\ pc[p] = "waiting" /\ Answerable(myid[p]) /\ myid[p] \in DOMAIN futures
        /\ pc[q] = "allocated"

\* a send call waits in recv.await with nothing delivered
Pending(p) == pc[p] = "waiting" /\ slot[p] = NoLine

\* C16 as stated: a send whose write failed ends with IoError, and a send that is
\* pending when the reader loop has exited has had its slot dropped, so that it ends
\* with RecvError
C16_AsStated ==
    /\ \A p \in Senders : pc[p] = "IoError" => ~Started(myid[p])
    /\ \A p \in Senders : Pending(p) /\ reader # "running" => SenderDropped(p)

\* C16: a send whose write failed ends with IoError, nothing of its frame written;
\* no slot is dropped without delivery, whether the reader loop runs or has ended,
\* so that no send ends with RecvError
C16_Errors ==
    /\ \A p \in Senders : pc[p] = "IoError" => ~Started(myid[p]) /\ got[p] = NoLine
    /\ \A p \in Senders : Pending(p) => myid[p] \in DOMAIN futures
    /\ \A p \in Senders : pc[p] # "RecvError"

\* the reader loop has ended while one request is pending, and the write of another
\* failed
C16_Witness ==
    \E p, q \in Senders :
        /\ reader = "exited"
        /\ Pending(p) /\ Started(myid[p])
        /\ pc[q] = "IoError"

\* C17: when the stream has ended the read loop has terminated (it reads no further
\* line), and a request pending then, or written afterwards, never completes: its
\* send call returns neither a line nor an error
C17_NeverCompletes ==
    [][reader # "running" =>
          /\ reader' = reader /\ log' = log /\ copies' = copies /\ notes' = notes
          /\ \A p \in Senders :
                /\ Pending(p) => pc'[p] \in {"waiting", "abandoned"} /\ slot'[p] = NoLine
                /\ pc'[p] \in {"Ok", "RecvError"} => pc'[p] = pc[p] \/ slot[p] # NoLine]_vars

\* after the stream ended, two requests are pending, each written whole and
\* unanswered
C17_Witness ==
    /\ reader = "exited"
    /\ \A p \in Senders : Pending(p) /\ Answerable(myid[p])

\* the script that locks the output an outpoint names, among the transactions the
\* chain can hold
LockOf(swap, outpoint) ==
    LET tx == CHOOSE t \in Txs(swap) : t.txid = outpoint.txid
    IN  tx.output

\* the contract whose unlocking script the first refund transaction presents
SpentWith(self) == refund(self, FALSE).tx1.input[1].script_sig.unlocks

\* C18: in a ProceedRefund state the outpoint the first refund transaction spends
\* is an output locked by the SwapLock contract, the contract whose unlocking
\* script that transaction presents
C18_SwapLockOutpoint ==
    bob.state.tag = "ProceedRefund" =>
        /\ refund(bob, FALSE).tx1.input[1].previous_output = bob.state.outpoint
        /\ SpentWith(bob) = bob.state.contract_pair.swaplock
        /\ LockOf(bob.swap, bob.state.outpoint) = locking_script(SpentWith(bob))

\* ProceedRefund entered from a transaction that pays the SwapLock contract
C18_FromSwapLock ==
    /\ bob.state.tag = "ProceedRefund"
    /\ LockOf(bob.swap, bob.state.outpoint) = locking_script(bob.state.contract_pair.swaplock)

\* ProceedRefund entered from a transaction that pays the Refund contract
C18_FromRefund ==
    /\ bob.state.tag = "ProceedRefund"
    /\ LockOf(bob.swap, bob.state.outpoint) = locking_script(bob.state.contract_pair.refund)

\* a sequence of chunks that is a concatenation of whole frames
RECURSIVE WholeFrames(_)
WholeFrames(chunks) ==
    \/ chunks = << >>
    \/ /\ Len(chunks) >= 2
       /\ SubSeq(chunks, 1, 2) = Frame(chunks[1].frame)
       /\ WholeFrames(SubSeq(chunks, 3, Len(chunks)))

\* C19: at every moment the bytes written to the connection are a concatenation of
\* the frames of individual send calls, each frame whole and contiguous
C19_Contiguous == WholeFrames(written)

\* what the write lock does give: the chunks of one call are adjacent and in order,
\* and no call writes twice
C19_NoneSplit ==
    \A k \in 1 .. Len(written) :
        /\ written[k].part = 2 => k > 1 /\ written[k - 1] = Frame(written[k].frame)[1]
        /\ \A j \in 1 .. Len(written) : written[j] = written[k] => j = k

\* a write took a part of a frame and the frame of another call follows it
C19_Truncated ==
    \E k \in 1 .. Len(written) - 1 :
        /\ written[k].part = 1
        /\ written[k + 1].part = 1

\* a state that carries a restore height
Carries(state) == state.tag # "Init"

C21_Success == (bob.state.tag = "MoneroLocked" /\ ~panicked) ~> (bob.state.tag = "SwapSuccess")

\* what the runner's own methods give instead: check_bch scans nothing in
\* MoneroLocked, and no call of pub_transition, check_xmr or check_bch moves the
\* session out of it
C21_Stuck == [][bob.state.tag = "MoneroLocked" => bob' = bob /\ fed' \in {fed, {}}]_vars

\* the session is in MoneroLocked after a poll of the BCH chain
C21_Polled == bob.state.tag = "MoneroLocked" /\ asked = NoRequest /\ ~panicked

\* Bob's Monero spend secret plus Alice's
CombinedSpend(swap) == [key |-> ScalarAdd(swap.keys.monero_spend, AliceSecret.spend)]

\* the transaction has an input and discloses the decryption of Bob's encrypted
\* signature
Discloses(swap, tx) == tx.inputs >= 1 /\ tx.sig = DisclosedPlainSig(swap)

\* C22: a SwapSuccess state stores the sum of the two Monero spend secrets; in
\* MoneroLocked a confirmed transaction that does not disclose the decryption of
\* Bob's encrypted signature yields InvalidTransaction and leaves the state
C22_SpendSecret ==
    /\ bob.state.tag = "SwapSuccess" => bob.state.key_pair.spend = CombinedSpend(bob.swap)
    /\ (Called /\ prev.tag = "MoneroLocked" /\ lastT.kind = "BchConfirmedTx"
               /\ ~Discloses(bob.swap, lastT.tx))
           => lastRes.error = "InvalidTransaction" /\ bob.state = prev

\* what the handler does give: the sum is stored when the transaction discloses the
\* decryption, and a transaction whose first input carries no signature is
\* refused
C22_WhenDisclosed ==
    (Called /\ prev.tag = "MoneroLocked" /\ lastT.kind = "BchConfirmedTx") =>
        /\ Discloses(bob.swap, lastT.tx) =>
               /\ bob.state.tag = "SwapSuccess"
               /\ bob.state.key_pair.spend = CombinedSpend(bob.swap)
        /\ lastT.tx.sig = NoSig => lastRes.error = "InvalidTransaction" /\ bob.state = prev

\* SwapSuccess entered with a signature that is no decryption of Bob's encrypted
\* signature
C22_Unverified ==
    /\ Called /\ prev.tag = "MoneroLocked" /\ lastT.kind = "BchConfirmedTx"
    /\ lastT.tx.sig # NoSig /\ lastT.tx.sig # DisclosedPlainSig(bob.swap)
    /\ bob.state.tag = "SwapSuccess"

\* transaction.input[0] on a transaction without inputs
C22_NoInput == panicked /\ bob.state.tag = "MoneroLocked"

\* Bob's encrypted signature is given out, by get_swaplock_enc_sig or as the EncSig
\* message of get_transition
EncSigOut(self) ==
    \/ get_swaplock_enc_sig(self) # None
    \/ get_transition(self) \notin {None, Panic} /\ get_transition(self).kind = "EncSig"

\* C23: Bob's encrypted signature is given out in MoneroLocked and in no other
\* state, and it becomes available only by a call that accepts XmrLockVerified
\* with swap.xmr_amount in VerifiedEncSig
C23_EncSigGated ==
    /\ [](EncSigOut(bob) <=> bob.state.tag = "MoneroLocked")
    /\ [](bob.state.tag = "MoneroLocked" => get_swaplock_enc_sig(bob) = BobEncSig(bob.swap))
    /\ [][~EncSigOut(bob) /\ EncSigOut(bob') =>
              /\ prev' = bob.state /\ prev'.tag = "VerifiedEncSig"
              /\ lastT'.kind = "XmrLockVerified"
              /\ lastT'.amount = bob.swap.xmr_amount
              /\ lastRes'.error = NoError]_vars

\* the signature is out after the lock was verified, and a wrong amount was
\* refused before
C23_Witness ==
    /\ EncSigOut(bob)
    /\ Called /\ lastT.kind = "XmrLockVerified" /\ prev.tag = "VerifiedEncSig"
    /\ get_transition(bob) = [kind |-> "EncSig", enc_sig |-> BobEncSig(bob.swap)]

\* the variants a session can be in at or after a variant
Onward ==
    [Init |-> {"Init", "WithAliceKey", "ContractMatch", "VerifiedEncSig", "MoneroLocked",
               "SwapSuccess", "ProceedRefund"},
     WithAliceKey |-> {"WithAliceKey", "ContractMatch", "VerifiedEncSig", "MoneroLocked",
                       "SwapSuccess", "ProceedRefund"},
     ContractMatch |-> {"ContractMatch", "VerifiedEncSig", "MoneroLocked", "SwapSuccess",
                        "ProceedRefund"},
     VerifiedEncSig |-> {"VerifiedEncSig", "MoneroLocked", "SwapSuccess", "ProceedRefund"},
     MoneroLocked |-> {"MoneroLocked", "SwapSuccess"},
     SwapSuccess |-> {"SwapSuccess"},
     ProceedRefund |-> {"ProceedRefund"}]

Terminal == {"SwapSuccess", "ProceedRefund"}

\* a call of transition returned and left a trace
Returned == << bob, prev, lastT, lastRes, path >>' # << bob, prev, lastT, lastRes, path >>

\* the returned actions include one of the kind
Emits(res, kind) == \E k \in 1 .. Len(res.actions) : res.actions[k].kind = kind

\* C24: no transition moves the variant backwards; in SwapSuccess and ProceedRefund
\* every transition returns the state as it is and no action; UnlockBchFallback
\* is emitted only on entry to ProceedRefund and TradeSuccess only on entry to
\* SwapSuccess, hence each at most once
C24_Forward ==
    /\ [][bob'.state.tag \in Onward[bob.state.tag]]_vars
    /\ [][bob.state.tag \in Terminal =>
              /\ bob' = bob
              /\ Returned => prev' = bob.state /\ lastRes'.actions = << >>]_vars
    /\ [][Returned /\ Emits(lastRes', "UnlockBchFallback") =>
              bob.state.tag = "VerifiedEncSig" /\ bob'.state.tag = "ProceedRefund"]_vars
    /\ [][Returned /\ Emits(lastRes', "TradeSuccess") =>
              bob.state.tag = "MoneroLocked" /\ bob'.state.tag = "SwapSuccess"]_vars

\* a restore-height update was applied to a ProceedRefund state that holds another
\* height, and an event to a SwapSuccess state likewise
C24_Witness ==
    /\ Called /\ prev.tag \in Terminal /\ bob.state = prev
    /\ \/ /\ lastT.kind = "SetXmrRestoreHeight"
          /\ lastT.height # bob.state.xmr_restore_height
          /\ bob.state.tag = "ProceedRefund"
       \/ lastT.kind = "BchConfirmedTx" /\ bob.state.tag = "SwapSuccess"

\* the states in which priv_transition comes to new_state.refund().unwrap(): the
\* states transition returns, without error and with UnlockBchFallback, for an
\* event fed to the stored state
RefundSites(self) ==
    { r.bob : r \in { x \in { transition(self, t) : t \in BchConfirmedTxs(self.swap) } :
                        x # Panic /\ x.error = NoError /\ Emits(x, "UnlockBchFallback") } }

C25_NeverNone ==
    /\ bob.state.tag = "ContractMatch" => get_contract(bob) # None
    /\ bob.state.tag = "MoneroLocked" => get_swaplock_enc_sig(bob) # None
    /\ get_transition(bob) # Panic
    /\ \A new_state \in RefundSites(bob) : refund(new_state, overflow_checks) # None

\* the runner came to new_state.refund().unwrap() and the call panicked: nothing
\* was broadcast and the stored state is the one before
C25_RefundPanics ==
    /\ ended = "Panic" /\ asked.kind = "BchConfirmedTx" /\ effects = << >>
    /\ bob.state.tag = "VerifiedEncSig"
    /\ \E new_state \in RefundSites(bob) : refund(new_state, overflow_checks) = Panic

\* the send call of p has returned
SendReturned(p) == pc[p] \in {"Ok", "IoError", "RecvError"}

\* C26: once a send call has returned, with a response or an error, the table does
\* not hold the id it registered; the table holds only ids of calls that wait
C26_TableClean ==
    /\ \A p \in Senders : SendReturned(p) => myid[p] \notin DOMAIN futures
    /\ \A i \in DOMAIN futures : pc[futures[i]] \in {"registered", "waiting"}

\* what does hold: a call that returned a response has had its slot removed, and
\* every slot belongs to the call that registered it
C26_AnsweredClean ==
    /\ \A p \in Senders : pc[p] = "Ok" => myid[p] \notin DOMAIN futures
    /\ \A i \in DOMAIN futures : myid[futures[i]] = i /\ pc[futures[i]] # "Ok"

\* the write of a call failed and its slot is in the table, with the reader loop
\* ended
C26_Leaked ==
    \E p \in Senders :
        /\ pc[p] = "IoError"
        /\ myid[p] \in DOMAIN futures /\ futures[myid[p]] = p
        /\ reader = "exited"

============================================================================
